---- MODULE Spec2Model ----
(***************************************************************************)
(* A model of the webvoyager Sequrity computer-use agent:                  *)
(*   - the protocol client (sequrity_client.py): session token handling,   *)
(*   - the tool-calling agent and its control loop (sequrity_cua.py),      *)
(*   - the multi-turn agent and its control loop                           *)
(*     (sequrity_cua_multi_turn.py).                                       *)
(* Spec      runs the two control loops (main of either variant).          *)
(* SpecAgent calls the operations of the client and of the agent objects   *)
(*           in any order, as a harness using the classes may.             *)
(* SpecClient calls create and reset_session of the client alone.          *)
(* SpecMessage builds one Message from each content a response may carry.  *)
(***************************************************************************)
EXTENDS Integers, Sequences, FiniteSets, TLC

\* ------------------------------------------------------------------ bounds
\* args.max_iterations of the control loops (the program's default is 15).
MaxIterations == 5
\* The decision-maker issues at most this many distinct non-terminal tool
\* calls (name and arguments) within one task.
MaxDistinctCalls == 1
\* SpecAgent: the number of turns a harness lets the history grow to.
MaxMessages == 2

\* SpecTracker: how many failed actions and how high a stuck counter a
\* harness lets the progress tracker collect.
MaxFailedActions == 4
MaxStuckCount == 4

\* The largest of the small window heights of the scroll specification.
MaxHeight == 30

\* SpecProgress: how many executed actions the progress counter is fed.
MaxActions == 7

\* ------------------------------------------------------- program constants
\* sequrity_cua.py, main: the stuck threshold of the tool-calling loop.
max_actions_without_progress == 5
\* sequrity_cua.py, track_progress: "stuck if no progress for 3+ iterations".
stuck_threshold == 3

\* ------------------------------------------------------------------- data
\* Python's None, for the session token, the last URL and the element cache.
None == "None"

\* The tokens a response header X-Session-Id may deliver; NoHeader: absent
\* (or empty, which `not session_id` treats alike).
NoHeader == "no_header"
Tokens == {"s1", "s2"}

\* Raw finish_reason of the first choice; "absent": the key is missing.
FinishReasons == {"stop", "tool_calls", "length", "absent"}

\* The pages of the site under automation and the number of labeled elements
\* get_web_element_rect finds on each; labels are "0" .. n-1.
Urls == {"a", "b", "google"}

NumElements(url) == IF url = "a" THEN 2 ELSE 1

LabelsOn(url) == IF NumElements(url) = 2 THEN {"0", "1"} ELSE {"0"}

\* Where a successful click on a label leads: "0" is a link, "1" a button.
ClickTarget(url, label) ==
    IF label = "0" THEN (IF url = "a" THEN "b" ELSE "a") ELSE url

\* Where typing + RETURN into a label leads: a search on google navigates.
TypeTarget(url, label) == IF url = "google" THEN "b" ELSE url

\* driver.back()
BackTarget(url) == IF url = "a" THEN "b" ELSE "a"

\* How the browser treats interactions with the elements of a page:
\*   "none"   nothing raises,
\*   "native" element.click() raises (the element is covered), scripts work,
\*   "all"    every interaction with an element raises (detached elements).
FaultOn(url) ==
    IF url = "a" THEN "native" ELSE IF url = "b" THEN "none" ELSE "all"

\* The elements whose element.clear() raises: the field 1 of page a cannot
\* be cleared (it is read-only), whatever else works on it.
ClearRaises(url, label) == url = "a" /\ label = "1"

Variants == {"tool", "multi"}

\* A tool call of a response: id, function name, and the label/target
\* argument ("none" when the tool takes none).  NoCall: no tool call.
NoCall == [id |-> 0, name |-> "none", arg |-> "none"]

Call(id, name, arg) == [id |-> id, name |-> name, arg |-> arg]

\* The JSON object of a tool turn: success, message and the set of its keys.
NoResult == [success |-> FALSE, message |-> "none", keys |-> {}]

\* One turn of the history.  digest: the perception refresh whose element
\* digest the turn carries (0: none).
Turn(role, call, tool_call_id, result, digest) ==
    [role |-> role, call |-> call, tool_call_id |-> tool_call_id,
     result |-> result, digest |-> digest]

\* cached_web_elements / labeled_elements: the refresh that produced the
\* element handles and the page they belong to.
Elements(epoch, url) == [epoch |-> epoch, url |-> url]

NoElements == [epoch |-> 0, url |-> None]

\* Message.__init__ not entered: no content given, none produced.
NoContent == [t |-> "unset"]
NotBuilt == [raised |-> "unset", content |-> NoContent]

VARIABLES
    variant,                  \* which agent class / main is running
    pc,                       \* position of main in its loop
    iteration,                \* the loop index of main
    client_session_id,        \* SequrityAI._session_id
    request,                  \* the last request sent: its X-Session-Id header
    response,                 \* the last response received, as normalized
    payload,                  \* the last response received, as delivered
    session_id,               \* SequrityCUA.session_id (constructor argument)
    messages,                 \* agent.messages
    failed_actions,           \* SequrityCUA.failed_actions
    last_url,                 \* SequrityCUA.last_url
    stuck_count,              \* SequrityCUA.stuck_count
    stuck,                    \* what the last track_progress call returned
    task_success,             \* main: task_success
    first_iteration,          \* main: first_iteration
    actions_without_progress, \* main: actions_without_progress
    cached_web_elements,      \* main: cached_web_elements / labeled_elements
    action,                   \* main: action (the dict get_next_action returned)
    result,                   \* main: (success, message) of execute_action
    current_url,              \* driver.current_url
    refreshes,                \* number of perception refreshes so far
    driver_ops,               \* what the last execute_action did to the browser
    data_content,             \* Message.__init__: data.get("content", "")
    message_content,          \* Message.content (or the exception raised)
    window_height,            \* what "return window.innerHeight;" gives
    scrolled_by               \* the dy of the last window.scrollBy(0, dy)

vars == <<variant, pc, iteration, client_session_id, request, response,
          payload, messages, failed_actions, last_url, stuck_count, stuck, task_success,
          first_iteration, actions_without_progress, cached_web_elements,
          action, result, current_url, refreshes, driver_ops,
          data_content, message_content, window_height, scrolled_by,
          session_id>>

clientVars == <<client_session_id, request, response, payload>>
trackerVars == <<failed_actions, last_url, stuck_count, stuck>>
loopVars == <<pc, iteration, task_success, first_iteration,
              actions_without_progress, cached_web_elements, action, result>>
driverVars == <<current_url, refreshes, driver_ops>>
messageVars == <<data_content, message_content>>
scrollVars == <<window_height, scrolled_by>>

\* ----------------------------------------------------- sequrity_client.py
\* What the remote service may answer to one chat-completion request.
\*   status       "ok" (HTTP 200), "http_error" (any other status) or
\*                "network_error" (requests raised: connection, timeout)
\*   hdr          the X-Session-Id response header or NoHeader
\*   has_choice   whether choices[0] exists
\*   finish       the raw finish_reason of choices[0]
\*   name, arg    the first tool call of the message (name "none": no call)
\*   args_ok      whether its arguments string is valid JSON
\*   id           the id of that tool call
Response(status, hdr, has_choice, finish, name, arg, args_ok, id) ==
    [status |-> status, hdr |-> hdr, has_choice |-> has_choice,
     finish |-> finish, name |-> name, arg |-> arg, args_ok |-> args_ok,
     id |-> id]

NoResponse ==
    Response("none", NoHeader, FALSE, "absent", "none", "none", TRUE, 0)

\* The request of one create call: its X-Session-Id header and how many
\* turns of the history it carried.
\* A variant that sends the request a second time when the first fails.
MakeRequestRetriesOnce(r) ==
    [posts |-> IF r.status = "ok" THEN 1 ELSE 2,
     error |-> IF r.status = "ok" THEN "none"
               ELSE IF r.status = "http_error" THEN "HTTP status: text"
               ELSE "Request exception: text"]

\* ChatCompletions._make_request: the number of requests.post calls it makes
\* and the message of the Exception it raises ("none": it returns).
MakeRequest(r) ==
    [posts |-> 1,
     error |-> IF r.status = "ok" THEN "none"
               ELSE IF r.status = "http_error" THEN "HTTP status: text"
               ELSE "Request exception: text"]

\* posts, error: what _make_request did with the request.
Request(hdr, n, r) ==
    [hdr |-> hdr, n |-> n, posts |-> MakeRequest(r).posts,
     error |-> MakeRequest(r).error]

NoRequest == [hdr |-> NoHeader, n |-> 0, posts |-> 0, error |-> "none"]

\* The responses that make _make_request raise.
TransportErrors ==
    {[status |-> e, hdr |-> NoHeader, has_choice |-> FALSE,
      finish |-> "absent", name |-> "none", arg |-> "none", args_ok |-> TRUE,
      id |-> 0] : e \in {"http_error", "network_error"}}

\* A variant that sets the header from the token field unconditionally.
BuildHeadersUnconditional(sid) == sid

\* ChatCompletions._build_headers: the X-Session-Id header of a request.
BuildHeaders(sid) == IF sid # None THEN sid ELSE NoHeader

\* Choice.__init__: self.finish_reason = data.get("finish_reason", "stop")
ChoiceFinishReason(r) == IF r.finish = "absent" THEN "stop" ELSE r.finish

\* A variant that keeps the held token when the turn is complete.
HandleSessionIdKeepsOnStop(sid, r) ==
    IF r.hdr = NoHeader THEN None
    ELSE LET finish_reason == IF r.has_choice THEN r.finish ELSE "absent"
         IN  IF finish_reason = "stop" THEN sid ELSE r.hdr

\* A variant that ignores a response without a token instead of resetting.
HandleSessionIdKeepsOld(sid, r) ==
    IF r.hdr = NoHeader THEN sid
    ELSE IF r.has_choice /\ r.finish = "stop" THEN None ELSE r.hdr

\* ChatCompletions._handle_session_id: the token held after a response.
HandleSessionId(sid, r) ==
    IF r.hdr = NoHeader THEN None
    ELSE LET finish_reason == IF r.has_choice THEN r.finish ELSE "absent"
         IN  IF finish_reason = "stop" THEN None ELSE r.hdr

\* SequrityAI.reset_session
ClientResetSession == None

\* response.json(): the body of a delivered response, without what the
\* transport carries (the status and the X-Session-Id header).
Json(p) == [k \in DOMAIN p \ {"status", "hdr"} |-> p[k]]

\* A response whose body is delivered as {"final_response": <body of p>}.
Envelope(p) ==
    [status |-> p.status, hdr |-> p.hdr, final_response |-> Json(p)]

\* A variant that hands the body on as delivered.
UnwrapResponseKeepsEnvelope(data) == data

\* SequrityCUA.get_next_action: the keyword arguments of the create call;
\* session_id is among them when the agent was constructed with one.
RequestParams(supplied) ==
    {"model", "messages", "tools", "max_tokens", "timeout"}
        \cup (IF supplied # None THEN {"session_id"} ELSE {})

\* ChatCompletions._build_request_body: model, messages and those of the
\* optional parameters that were given; every other keyword is dropped.
OptionalParams ==
    {"max_tokens", "seed", "temperature", "timeout", "tools", "tool_choice",
     "reasoning_effort"}
BuildRequestBody(kwargs) == {"model", "messages"} \cup (kwargs \cap OptionalParams)

\* ChatCompletions._unwrap_response
UnwrapResponse(data) ==
    IF "final_response" \in DOMAIN data THEN data.final_response ELSE data

\* ChatCompletion(response_data) next to the transport fields of the
\* response: a dict without "choices" gives an empty list of choices.
Received(p) ==
    LET response_data == UnwrapResponse(Json(p))
    IN  IF "has_choice" \in DOMAIN response_data
        THEN Response(p.status, p.hdr, response_data.has_choice,
                      response_data.finish, response_data.name,
                      response_data.arg, response_data.args_ok,
                      response_data.id)
        ELSE Response(p.status, p.hdr, FALSE, "absent", "none", "none", TRUE, 0)

\* ChatCompletions.create: the token held after the call.  A transport
\* error is raised by _make_request, before the session is touched.
Create(sid, p) ==
    IF MakeRequest(p).error # "none" THEN sid
    ELSE HandleSessionId(sid, Received(p))

\* ------------------------------------------------ Message content unwrapping
\* JSON / Python values, tagged by type.  A mapping is a function from its
\* keys to values.
VStr(s) == [t |-> "str", s |-> s]
VNum == [t |-> "num"]
VNull == [t |-> "null"]
VDict(d) == [t |-> "dict", d |-> d]

\* Python strings, by what they spell:
\*   Text(s)    the characters s: not a mapping, not quoted
\*   Obj(q, d)  the mapping d written out with quote character q:
\*              q = "dq" is json.dumps(d), q = "sq" is Python's str(d);
\*              the empty mapping is "{}" either way
\*   Lines(..)  the lines "Thought: .." and "Action: .." (Absent: no line)
\*   Broken     text that is no JSON document
Text(s) == [t |-> "text", s |-> s]
Obj(q, d) == [t |-> "obj", q |-> IF DOMAIN d = {} THEN "dq" ELSE q, d |-> d]
Absent == [t |-> "absent"]
Lines(thought_line, action_line) ==
    [t |-> "lines", thought |-> thought_line, action |-> action_line]
Broken == [t |-> "broken"]

\* The content values of a message that are no strings: JSON null, a list.
ContentNull == [t |-> "none"]
ContentList == [t |-> "list"]

\* Whether a value holds a null (which Python writes None, JSON null).
RECURSIVE HasNull(_)
HasNull(v) ==
    \/ v.t = "null"
    \/ v.t = "dict" /\ \E k \in DOMAIN v.d : HasNull(v.d[k])

\* json.loads(content): the value, or the exception raised.
JsonLoads(c) ==
    IF c.t \in {"none", "list"} THEN [raised |-> "TypeError"]
    ELSE IF c.t = "obj" /\ c.q = "dq"
    THEN [raised |-> "no", value |-> VDict(c.d)]
    ELSE IF c = Text("5") THEN [raised |-> "no", value |-> VNum]
    ELSE IF c = Text("null") THEN [raised |-> "no", value |-> VNull]
    ELSE [raised |-> "JSONDecodeError"]

\* str(value)
PyStr(v) ==
    IF v.t = "str" THEN Text(v.s)
    ELSE IF v.t = "num" THEN Text("5")
    ELSE IF v.t = "null" THEN Text("None")
    ELSE Obj("sq", v.d)

\* Python truthiness of a value.
Truthy(v) ==
    IF v.t = "str" THEN v.s # ""
    ELSE IF v.t = "dict" THEN DOMAIN v.d # {}
    ELSE v.t = "num"

\* value.get(k1) or value.get(k2); VNull stands for Python's None.
GetOr(d, k1, k2) ==
    IF k1 \in DOMAIN d /\ Truthy(d[k1]) THEN d[k1]
    ELSE IF k2 \in DOMAIN d THEN d[k2] ELSE VNull

\* A variant that knows the lowercase keys only.
FormatValueLowercaseOnly(value) ==
    IF value.t # "dict" THEN PyStr(value)
    ELSE LET thought == GetOr(value.d, "thought", "thought")
             action_ == GetOr(value.d, "action", "action")
         IN  IF Truthy(thought) \/ Truthy(action_)
             THEN Lines(IF Truthy(thought) THEN PyStr(thought) ELSE Absent,
                        IF Truthy(action_) THEN PyStr(action_) ELSE Absent)
             ELSE PyStr(value)

\* Message._format_value
FormatValue(value) ==
    IF value.t # "dict" THEN PyStr(value)
    ELSE LET thought == GetOr(value.d, "thought", "Thought")
             action_ == GetOr(value.d, "action", "Action")
         IN  IF Truthy(thought) \/ Truthy(action_)
             THEN Lines(IF Truthy(thought) THEN PyStr(thought) ELSE Absent,
                        IF Truthy(action_) THEN PyStr(action_) ELSE Absent)
             ELSE PyStr(value)

\* What Message._extract_content leaves: the content, or the exception.
Extracted(c) == [raised |-> "no", content |-> c]
Raised(e) == [raised |-> e, content |-> Text("")]

\* content.strip().startswith("{'") or content.strip().startswith('{"')
StartsLikeMapping(c) == c.t = "obj" /\ DOMAIN c.d # {}

\* content.strip().replace("'", '"')
ReplaceQuotes(c) ==
    IF c.t = "obj" /\ c.q = "sq"
    THEN (IF HasNull(VDict(c.d)) THEN Broken ELSE Obj("dq", c.d))
    ELSE c

\* The second half of _extract_content: the dict-string branch.
DictStringBranch(content) ==
    IF content.t \in {"none", "list"} THEN Raised("AttributeError")
    ELSE IF StartsLikeMapping(content)
    THEN LET parsed == JsonLoads(ReplaceQuotes(content))
         IN  IF parsed.raised = "no"
             THEN Extracted(FormatValue(parsed.value))
             ELSE Extracted(content)
    ELSE Extracted(content)

\* "final_return_value" in parsed and "value" in parsed["final_return_value"]
\* with the subscript that follows: the value, or the TypeError of a test
\* against a value that is no container.
FinalReturnValue(parsed) ==
    IF parsed.t # "dict" THEN [found |-> "TypeError"]
    ELSE IF "final_return_value" \notin DOMAIN parsed.d
    THEN [found |-> "no"]
    ELSE LET inner == parsed.d["final_return_value"]
         IN  IF inner.t # "dict" THEN [found |-> "TypeError"]
             ELSE IF "value" \in DOMAIN inner.d
             THEN [found |-> "yes", value |-> inner.d["value"]]
             ELSE [found |-> "no"]

\* Message._extract_content
ExtractContent(content) ==
    LET parsed == JsonLoads(content)
    IN  IF parsed.raised = "no"
           /\ FinalReturnValue(parsed.value).found = "yes"
        THEN Extracted(FormatValue(FinalReturnValue(parsed.value).value))
        ELSE DictStringBranch(content)

\* ---------------------------------------------------------- the two agents
\* What a get_next_action call leaves behind: the history, the client's
\* token, the request it sent, the action it returned (NoCall: None or a
\* dict without tool_name) and whether it raised instead of returning.
Outcome(msgs, sid, req, ret, raised) ==
    [messages |-> msgs, session |-> sid, request |-> req, ret |-> ret,
     raised |-> raised]

AssistantTurn(call) == Turn("assistant", call, 0, NoResult, 0)

\* SequrityCUA.add_system_prompt
AddSystemPrompt(msgs) == Append(msgs, Turn("system", NoCall, 0, NoResult, 0))

\* A variant that drops the element digests of earlier turns (stale labels)
\* when a new observation arrives.
AddObservationStripsOld(msgs, epoch) ==
    Append([i \in 1..Len(msgs) |-> [msgs[i] EXCEPT !.digest = 0]],
           Turn("user", NoCall, 0, NoResult, epoch))

\* SequrityCUA.add_observation: a user turn carrying the element digest.
AddObservation(msgs, epoch) ==
    Append(msgs, Turn("user", NoCall, 0, NoResult, epoch))

\* SequrityCUA.send_pllm_retry_command
SendPllmRetryCommand(msgs) ==
    Append(msgs, Turn("user", NoCall, 0, NoResult, 0))

\* message.tool_calls of the first choice: the call the response record
\* spells out, and the calls that follow it when the response has more.
ToolCallList(r) ==
    <<Call(r.id, r.name, r.arg)>>
        \o (IF "more" \in DOMAIN r THEN r.more ELSE <<>>)

\* A variant that takes the last tool call of the response.
PickLastToolCall(tool_calls) == tool_calls[Len(tool_calls)]

\* get_next_action: tool_call = message.tool_calls[0]
PickToolCall(tool_calls) == tool_calls[1]

\* The part of get_next_action that follows a create call that returned:
\* choices[0], the assistant turn, json.loads of the arguments.
AfterCreate(msgs, sid, req, r) ==
    IF ~r.has_choice
    THEN Outcome(msgs, sid, req, NoCall, TRUE)          \* IndexError
    ELSE IF r.name # "none"
    THEN LET call == PickToolCall(ToolCallList(r))
             msgs2 == Append(msgs, AssistantTurn(call))
         IN  IF r.args_ok
             THEN Outcome(msgs2, sid, req, call, FALSE)
             ELSE Outcome(msgs2, sid, req, NoCall, TRUE) \* JSONDecodeError
    ELSE Outcome(Append(msgs, AssistantTurn(NoCall)), sid, req, NoCall, FALSE)

\* A variant that drops the session when the call fails.
GetNextActionResetsOnError(msgs, sid, r) ==
    LET req == Request(BuildHeaders(sid), Len(msgs), r)
    IN  IF MakeRequest(r).error # "none"
        THEN Outcome(msgs, ClientResetSession, req, NoCall, TRUE)
        ELSE AfterCreate(msgs, Create(sid, r), req, r)

\* SequrityCUA.get_next_action
GetNextAction(msgs, sid, r) ==
    LET req == Request(BuildHeaders(sid), Len(msgs), r)
    IN  IF MakeRequest(r).error # "none"
        THEN Outcome(msgs, sid, req, NoCall, TRUE)
        ELSE AfterCreate(msgs, Create(sid, r), req, r)

\* A variant that keeps the session of the turn before.
GetNextActionMultiTurnKeepsSession(msgs, sid, r, epoch) ==
    LET msgs1 == AddObservation(msgs, epoch)
        req == Request(BuildHeaders(sid), Len(msgs1), r)
    IN  IF MakeRequest(r).error # "none"
        THEN Outcome(msgs1, sid, req, NoCall, TRUE)
        ELSE AfterCreate(msgs1, Create(sid, r), req, r)

\* SequrityCUAMultiTurn.get_next_action: the session is reset, the
\* observation appended, and then the call is made.
GetNextActionMultiTurn(msgs, sid, r, epoch) ==
    LET sid0 == ClientResetSession
        msgs1 == AddObservation(msgs, epoch)
        req == Request(BuildHeaders(sid0), Len(msgs1), r)
    IN  IF MakeRequest(r).error # "none"
        THEN Outcome(msgs1, sid0, req, NoCall, TRUE)
        ELSE AfterCreate(msgs1, Create(sid0, r), req, r)

\* A variant in which a screenshot replaces the message of the result.
ResultKeysScreenshotForMessage(has_screenshot, has_web_text, has_website_texts) ==
    (IF has_screenshot THEN {"success", "screenshot"}
                       ELSE {"success", "message"})
        \cup (IF has_web_text THEN {"web_elements"} ELSE {})
        \cup (IF has_website_texts THEN {"website_texts"} ELSE {})

\* The keys of the JSON object report_tool_result serializes; an enrichment
\* field is added when the value supplied for it is truthy.
ResultKeys(has_screenshot, has_web_text, has_website_texts) ==
    {"success", "message"}
        \cup (IF has_screenshot THEN {"screenshot"} ELSE {})
        \cup (IF has_web_text THEN {"web_elements"} ELSE {})
        \cup (IF has_website_texts THEN {"website_texts"} ELSE {})

\* A variant that echoes no call id.
ReportToolResultWithoutId(msgs, tool_call_id, success, message, has_screenshot, digest, has_website_texts) ==
    Append(msgs,
           Turn("tool", NoCall, 0,
                [success |-> success, message |-> message,
                 keys |-> ResultKeys(has_screenshot, digest # 0,
                                     has_website_texts)],
                IF digest # 0 THEN digest ELSE 0))

\* SequrityCUA.report_tool_result; digest: the refresh whose web_text is
\* passed (0: none).
ReportToolResult(msgs, tool_call_id, success, message, has_screenshot, digest, has_website_texts) ==
    Append(msgs,
           Turn("tool", NoCall, tool_call_id,
                [success |-> success, message |-> message,
                 keys |-> ResultKeys(has_screenshot, digest # 0,
                                     has_website_texts)],
                IF digest # 0 THEN digest ELSE 0))

\* SequrityCUAMultiTurn.report_tool_result
ReportToolResultMultiTurn(msgs, tool_call_id, success, message) ==
    Append(msgs,
           Turn("tool", NoCall, tool_call_id,
                [success |-> success, message |-> message,
                 keys |-> {"success", "message"}], 0))

\* ------------------------------------------------------------ track_progress
\* f"{action['tool_name']}:{json.dumps(action['arguments'])}"
ActionKey(a) == <<a.name, a.arg>>

\* What a track_progress call leaves: the tracker fields and its return value.
Tracked(fa, last, count, ret) ==
    [failed_actions |-> fa, last_url |-> last, stuck_count |-> count,
     stuck |-> ret]

\* len(failed_actions) >= 3 and len(set(failed_actions[-3:])) == 1
SameActionFailedThrice(fa) ==
    /\ Len(fa) >= 3
    /\ fa[Len(fa)] = fa[Len(fa) - 1]
    /\ fa[Len(fa)] = fa[Len(fa) - 2]

non_navigation_actions == {"wait", "scroll_page", "type_text"}

\* The URL rule that closes track_progress.
UrlRule(fa, last, count, a, url) ==
    LET count2 == IF last = url
                  THEN (IF a.name \notin non_navigation_actions
                        THEN count + 1 ELSE count)
                  ELSE 0
    IN  Tracked(fa, url, count2, count2 >= stuck_threshold)

\* A variant whose repeated-failure rule reports by the counter alone.
TrackProgressReportsByCounter(fa, last, count, a, success, url) ==
    LET fa2 == IF success THEN fa ELSE Append(fa, ActionKey(a))
    IN  IF ~success /\ SameActionFailedThrice(fa2)
        THEN Tracked(fa2, last, count + 1, count + 1 >= stuck_threshold)
        ELSE UrlRule(fa2, last, count, a, url)

\* A variant of the repeated-failure rule that reports without counting.
TrackProgressRepeatNotCounted(fa, last, count, a, success, url) ==
    LET fa2 == IF success THEN fa ELSE Append(fa, ActionKey(a))
    IN  IF ~success /\ SameActionFailedThrice(fa2)
        THEN Tracked(fa2, last, count, TRUE)
        ELSE UrlRule(fa2, last, count, a, url)

\* A variant without the list of actions that never change the URL.
TrackProgressCountsEveryAction(fa, last, count, a, success, url) ==
    LET fa2 == IF success THEN fa ELSE Append(fa, ActionKey(a))
    IN  IF ~success /\ SameActionFailedThrice(fa2)
        THEN Tracked(fa2, last, count + 1, TRUE)
        ELSE LET count2 == IF last = url THEN count + 1 ELSE 0
             IN  Tracked(fa2, url, count2, count2 >= stuck_threshold)

\* SequrityCUA.track_progress
TrackProgress(fa, last, count, a, success, url) ==
    LET fa2 == IF success THEN fa ELSE Append(fa, ActionKey(a))
    IN  IF ~success /\ SameActionFailedThrice(fa2)
        THEN Tracked(fa2, last, count + 1, TRUE)
        ELSE UrlRule(fa2, last, count, a, url)

\* ------------------------------------------------------------ execute_action
\* What one execute_action call does: the (success, message) it returns, the
\* driver calls it made (a trailing "!" marks a call that raised) and the
\* page the browser is on afterwards.
Settled(success, message, ops, url) ==
    [success |-> success, message |-> message, ops |-> ops, url |-> url]

\* The lookup loop over labeled_elements: exact match of str(label).
Found(label, elems) == elems.url # None /\ label \in LabelsOn(elems.url)

\* A variant without the script-level fallback.
ClickElementNoFallback(label, elems, url, flt) ==
    IF ~Found(label, elems) THEN Settled(FALSE, "not_found", <<>>, url)
    ELSE IF flt = "none"
    THEN Settled(TRUE, "clicked", <<"scrollIntoView", "setTarget", "click">>,
              ClickTarget(url, label))
    ELSE Settled(FALSE, "error", <<"scrollIntoView", "setTarget", "click!">>, url)

\* sequrity_cua.py, execute_action, click_element
ClickElement(label, elems, url, flt) ==
    IF ~Found(label, elems) THEN Settled(FALSE, "not_found", <<>>, url)
    ELSE IF flt = "none"
    THEN Settled(TRUE, "clicked", <<"scrollIntoView", "setTarget", "click">>,
              ClickTarget(url, label))
    ELSE IF flt = "native"
    THEN Settled(TRUE, "clicked_js",
              <<"scrollIntoView", "setTarget", "click!", "script_click">>,
              ClickTarget(url, label))
    ELSE Settled(FALSE, "error", <<"scrollIntoView!", "script_click!">>, url)

\* sequrity_cua.py, execute_action, type_text, "Clear field thoroughly":
\* element.clear(), the select-all chord, a space and a backspace in one try
\* block whose handler passes; the first call that raises ends the block.
ClearField(raises) ==
    IF raises THEN <<"clear!">>
    ELSE <<"clear", "select_all", "space", "backspace">>

\* sequrity_cua.py, execute_action, type_text
TypeText(label, elems, url, flt) ==
    IF ~Found(label, elems) THEN Settled(FALSE, "not_found", <<>>, url)
    ELSE IF flt = "all"
    THEN Settled(FALSE, "error", <<"scrollIntoView!">>, url)
    ELSE Settled(TRUE, "typed",
              <<"scrollIntoView">>
                \o ClearField(ClearRaises(elems.url, label)) \o <<"type">>,
              TypeTarget(url, label))

\* sequrity_cua.py, execute_action, scroll_page with target WINDOW: the dy
\* handed to window.scrollBy, two thirds of window.innerHeight.
ScrollAmount(height, direction) ==
    LET scroll_amount == (height * 2) \div 3
    IN  IF direction = "down" THEN scroll_amount ELSE -scroll_amount

\* sequrity_cua_multi_turn.py, execute_action, scroll_page: a fixed step,
\* whatever the height of the window.
ScrollAmountMultiTurn(height, direction) ==
    IF direction = "down" THEN 500 ELSE -500

\* The dy of a whole-window scroll in either variant.
WindowScroll(v, height, direction) ==
    IF v = "tool" THEN ScrollAmount(height, direction)
    ELSE ScrollAmountMultiTurn(height, direction)

\* sequrity_cua.py, execute_action, scroll_page: the loop over the elements
\* breaks on a match and falls through to the success return otherwise.
ScrollPage(target, elems, url, flt) ==
    IF target = "WINDOW" THEN Settled(TRUE, "scrolled", <<"window_scroll">>, url)
    ELSE IF ~Found(target, elems) THEN Settled(TRUE, "scrolled", <<>>, url)
    ELSE IF flt = "all" THEN Settled(FALSE, "error", <<"focus!">>, url)
    ELSE Settled(TRUE, "scrolled", <<"focus", "alt_arrow">>, url)

\* A variant whose last branch reports an unknown tool as done.
PlainToolUnknownSucceeds(tool_name, url) ==
    IF tool_name = "wait" THEN Settled(TRUE, "waited", <<>>, url)
    ELSE IF tool_name = "go_back"
    THEN Settled(TRUE, "went_back", <<"back">>, BackTarget(url))
    ELSE IF tool_name = "google_search"
    THEN Settled(TRUE, "google", <<"get">>, "google")
    ELSE Settled(TRUE, "unknown_tool", <<>>, url)

\* The tools of both variants that touch no element.
PlainTool(tool_name, url) ==
    IF tool_name = "wait" THEN Settled(TRUE, "waited", <<>>, url)
    ELSE IF tool_name = "go_back"
    THEN Settled(TRUE, "went_back", <<"back">>, BackTarget(url))
    ELSE IF tool_name = "google_search"
    THEN Settled(TRUE, "google", <<"get">>, "google")
    ELSE Settled(FALSE, "unknown_tool", <<>>, url)

\* args["label"], args["target"]: the tools that read a required key of the
\* arguments, and a call whose arguments lack it (a KeyError).
ElementTools == {"click_element", "type_text", "scroll_page"}
MissingArgument(a) == a.name \in ElementTools /\ a.arg = "missing"

\* sequrity_cua.py, execute_action
ExecuteActionTool(a, elems, url, flt) ==
    IF MissingArgument(a) THEN Settled(FALSE, "error", <<>>, url)
    ELSE IF a.name = "click_element" THEN ClickElement(a.arg, elems, url, flt)
    ELSE IF a.name = "type_text" THEN TypeText(a.arg, elems, url, flt)
    ELSE IF a.name = "scroll_page" THEN ScrollPage(a.arg, elems, url, flt)
    ELSE IF a.name = "check_website" THEN Settled(TRUE, "checked", <<>>, url)
    ELSE IF a.name = "answer" THEN Settled(TRUE, "answer", <<>>, url)
    ELSE PlainTool(a.name, url)

\* sequrity_cua_multi_turn.py, execute_action, click_element: a script click.
ClickElementMultiTurn(label, elems, url, flt) ==
    IF ~Found(label, elems) THEN Settled(FALSE, "not_found", <<>>, url)
    ELSE IF flt = "all" THEN Settled(FALSE, "error", <<"script_click!">>, url)
    ELSE Settled(TRUE, "clicked", <<"script_click">>, ClickTarget(url, label))

\* sequrity_cua_multi_turn.py, execute_action, type_text
TypeTextMultiTurn(label, elems, url, flt) ==
    IF ~Found(label, elems) THEN Settled(FALSE, "not_found", <<>>, url)
    ELSE IF flt = "all" \/ ClearRaises(elems.url, label)
    THEN Settled(FALSE, "error", <<"clear!">>, url)
    ELSE Settled(TRUE, "typed", <<"clear", "type">>, TypeTarget(url, label))

\* sequrity_cua_multi_turn.py, execute_action, scroll_page
ScrollPageMultiTurn(target, elems, url, flt) ==
    IF target = "WINDOW" THEN Settled(TRUE, "scrolled", <<"window_scroll">>, url)
    ELSE IF ~Found(target, elems) THEN Settled(TRUE, "scrolled", <<>>, url)
    ELSE IF flt = "all" THEN Settled(FALSE, "error", <<"scrollTop!">>, url)
    ELSE Settled(TRUE, "scrolled", <<"scrollTop">>, url)

\* sequrity_cua_multi_turn.py, execute_action
ExecuteActionMultiTurn(a, elems, url, flt) ==
    IF MissingArgument(a) THEN Settled(FALSE, "error", <<>>, url)
    ELSE IF a.name = "click_element"
    THEN ClickElementMultiTurn(a.arg, elems, url, flt)
    ELSE IF a.name = "type_text" THEN TypeTextMultiTurn(a.arg, elems, url, flt)
    ELSE IF a.name = "scroll_page"
    THEN ScrollPageMultiTurn(a.arg, elems, url, flt)
    ELSE IF a.name = "mark_finished"
    THEN Settled(TRUE, "task_complete", <<>>, url)
    ELSE PlainTool(a.name, url)

\* ------------------------------------------------------- the control loops
\* The calls the decision-maker may issue: every tool of either catalogue,
\* with a label every page has ("0"), one only page a has ("1"), one no
\* page has ("9"), and a call whose arguments lack the label ("missing").
ToolCalls ==
    {<<"click_element", "0">>, <<"click_element", "9">>,
     <<"click_element", "missing">>,
     <<"type_text", "0">>, <<"type_text", "1">>, <<"type_text", "9">>,
     <<"scroll_page", "WINDOW">>, <<"scroll_page", "0">>,
     <<"scroll_page", "9">>,
     <<"wait", "none">>, <<"go_back", "none">>, <<"google_search", "none">>,
     <<"check_website", "none">>, <<"answer", "none">>,
     <<"mark_finished", "none">>}

\* The terminal answer action of each variant.
TerminalTool(v) == IF v = "tool" THEN "answer" ELSE "mark_finished"

\* The session headers the service answers with inside the loops.
LoopHeaders == {"s1"}

\* The tool call ids of the service are unique within a task.
NextId(msgs) == Len(msgs) + 1

\* A response whose message carries a second tool call behind the one of r.
SeveralCalls(r) ==
    [status |-> r.status, hdr |-> r.hdr, has_choice |-> r.has_choice,
     finish |-> r.finish, name |-> r.name, arg |-> r.arg,
     args_ok |-> r.args_ok, id |-> r.id,
     more |-> <<Call(r.id + 1, "go_back", "none")>>]

\* The answers of the service to a decision request of the loops.
LoopResponses(id) ==
    TransportErrors
    \cup {Response("ok", h, FALSE, "absent", "none", "none", TRUE, 0) :
             h \in LoopHeaders}
    \cup {Response("ok", h, TRUE, "stop", "none", "none", TRUE, 0) :
             h \in LoopHeaders}
    \cup {Response("ok", h, TRUE, "tool_calls", c[1], c[2], TRUE, id) :
             h \in LoopHeaders, c \in ToolCalls}
    \cup {Response("ok", h, TRUE, "tool_calls", "click_element", "0", FALSE,
                    id) : h \in LoopHeaders}
    \cup {SeveralCalls(Response("ok", h, TRUE, "tool_calls", "click_element",
                                "0", TRUE, id)) : h \in LoopHeaders}

\* The distinct non-terminal calls recorded in the history so far.
CallsUsed(msgs, v) ==
    {<<msgs[i].call.name, msgs[i].call.arg>> :
        i \in {j \in 1..Len(msgs) :
                  /\ msgs[j].role = "assistant"
                  /\ msgs[j].call # NoCall
                  /\ msgs[j].call.name # TerminalTool(v)}}

Allowed(r, msgs, v) ==
    \/ r.name \in {"none", TerminalTool(v)}
    \/ <<r.name, r.arg>> \in CallsUsed(msgs, v)
    \/ Cardinality(CallsUsed(msgs, v)) < MaxDistinctCalls

\* sequrity_cua.py, main: what follows get_next_action in an iteration, up
\* to the call of execute_action.
Branch(next_pc, msgs, success, act) ==
    [pc |-> next_pc, messages |-> msgs, task_success |-> success,
     action |-> act]

\* A variant that hands the answer call to execute_action like any other.
DispatchToolAnswerNotTerminal(o, cached, success) ==
    IF o.raised THEN Branch("crashed", o.messages, success, NoCall)
    ELSE IF o.ret = NoCall THEN Branch("done", o.messages, success, NoCall)
    ELSE Branch("execute", o.messages, success, o.ret)

\* A variant that counts a response without a tool call as a success.
DispatchToolSuccessWithoutAnswer(o, cached, success) ==
    IF o.raised THEN Branch("crashed", o.messages, success, NoCall)
    ELSE IF o.ret = NoCall THEN Branch("done", o.messages, TRUE, NoCall)
    ELSE IF o.ret.name = "answer"
    THEN Branch("done",
                ReportToolResult(o.messages, o.ret.id, TRUE, "task_completed",
                                 FALSE, 0, FALSE),
                TRUE, o.ret)
    ELSE Branch("execute", o.messages, success, o.ret)

DispatchTool(o, cached, success) ==
    IF o.raised THEN Branch("crashed", o.messages, success, NoCall)
    ELSE IF o.ret = NoCall THEN Branch("done", o.messages, success, NoCall)
    ELSE IF o.ret.name = "answer"
    THEN Branch("done",
                ReportToolResult(o.messages, o.ret.id, TRUE, "task_completed",
                                 FALSE, 0, FALSE),
                TRUE, o.ret)
    ELSE IF cached = NoElements
    THEN Branch("done", o.messages, success, o.ret)
    ELSE Branch("execute", o.messages, success, o.ret)

\* sequrity_cua_multi_turn.py, main: the same stretch of the loop.
DispatchMultiTurn(o, success) ==
    IF o.raised THEN Branch("crashed", o.messages, success, NoCall)
    ELSE IF o.ret = NoCall THEN Branch("done", o.messages, success, NoCall)
    ELSE IF o.ret.name = "mark_finished"
    THEN Branch("done", o.messages, success, o.ret)
    ELSE Branch("execute", o.messages, success, o.ret)

\* A variant that sends the page state after a click as well.
ShowsPageAfterClick(tool_name) ==
    tool_name \in {"check_website", "click_element"}

\* sequrity_cua.py, main: "if action['tool_name'] == 'check_website'", the
\* branch that reports the result with the state of the page.
ShowsPage(tool_name) == tool_name = "check_website"

\* sequrity_cua.py, main: the progress counter after an action.
Progress(awp, last, success, url) ==
    IF ~success THEN [awp |-> awp + 1, last_url |-> last]
    ELSE IF url # last THEN [awp |-> 0, last_url |-> url]
    ELSE [awp |-> awp, last_url |-> last]

\* A variant that gives up after the first action without progress.
LoopExitOnFirstFailure(awp, it) ==
    IF awp >= 1 THEN [pc |-> "done", iteration |-> it]
    ELSE [pc |-> IF it + 1 < MaxIterations THEN "decide" ELSE "done",
          iteration |-> it + 1]

\* A variant whose for loop runs one iteration past max_iterations.
LoopExitPastLimit(awp, it) ==
    IF awp >= max_actions_without_progress
    THEN [pc |-> "done", iteration |-> it]
    ELSE [pc |-> IF it + 1 <= MaxIterations THEN "decide" ELSE "done",
          iteration |-> it + 1]

\* sequrity_cua.py, main: the stuck check and the end of the for loop.
LoopExit(awp, it) ==
    IF awp >= max_actions_without_progress
    THEN [pc |-> "done", iteration |-> it]
    ELSE [pc |-> IF it + 1 < MaxIterations THEN "decide" ELSE "done",
          iteration |-> it + 1]

Init ==
    /\ variant \in Variants
    /\ pc = "observe"
    /\ iteration = 0
    /\ client_session_id = None
    /\ request = NoRequest
    /\ response = NoResponse
    /\ payload = NoResponse
    /\ messages = IF variant = "tool"
                  THEN <<Turn("user", NoCall, 0, NoResult, 0)>>
                  ELSE <<>>
    /\ failed_actions = <<>>
    /\ last_url = None
    /\ stuck_count = 0
    /\ stuck = FALSE
    /\ task_success = FALSE
    /\ first_iteration = TRUE
    /\ actions_without_progress = 0
    /\ cached_web_elements = NoElements
    /\ action = NoCall
    /\ result = NoResult
    /\ current_url = "a"
    /\ refreshes = 0
    /\ driver_ops = <<>>
    /\ data_content = NoContent
    /\ message_content = NotBuilt
    /\ window_height = 900
    /\ session_id = None
    /\ scrolled_by = 0

\* sequrity_cua.py, main: the initial observation of the first iteration.
Perceive ==
    /\ variant = "tool" /\ pc = "observe" /\ first_iteration
    /\ refreshes' = refreshes + 1
    /\ messages' = AddObservation(messages, refreshes + 1)
    /\ cached_web_elements' = Elements(refreshes + 1, current_url)
    /\ first_iteration' = FALSE
    /\ pc' = "decide"
    /\ UNCHANGED <<variant, session_id, scrollVars, messageVars,
                   iteration, clientVars, trackerVars,
                   task_success, actions_without_progress, action, result,
                   current_url, driver_ops>>

\* sequrity_cua_multi_turn.py, main: labels, screenshot and vision analysis
\* at the head of every iteration.
PerceiveMultiTurn ==
    /\ variant = "multi" /\ pc = "observe"
    /\ refreshes' = refreshes + 1
    /\ cached_web_elements' = Elements(refreshes + 1, current_url)
    /\ pc' = "decide"
    /\ UNCHANGED <<variant, session_id, scrollVars, messageVars,
                   iteration, clientVars, trackerVars,
                   messages, task_success, first_iteration,
                   actions_without_progress, action, result, current_url,
                   driver_ops>>

\* sequrity_cua.py, main: get_next_action and the branches on its result.
Decide(r) ==
    /\ variant = "tool" /\ pc = "decide"
    /\ LET o == GetNextAction(messages, client_session_id, r)
           b == DispatchTool(o, cached_web_elements, task_success)
       IN  /\ client_session_id' = o.session
           /\ request' = o.request
           /\ response' = r
           /\ payload' = r
           /\ messages' = b.messages
           /\ task_success' = b.task_success
           /\ action' = b.action
           /\ pc' = b.pc
    /\ UNCHANGED <<variant, session_id, scrollVars, messageVars,
                   iteration, trackerVars, first_iteration,
                   actions_without_progress, cached_web_elements, result,
                   driverVars>>

\* sequrity_cua_multi_turn.py, main: the same for the multi-turn loop.
DecideMultiTurn(r) ==
    /\ variant = "multi" /\ pc = "decide"
    /\ LET o == GetNextActionMultiTurn(messages, client_session_id, r,
                                       cached_web_elements.epoch)
           b == DispatchMultiTurn(o, task_success)
       IN  /\ client_session_id' = o.session
           /\ request' = o.request
           /\ response' = r
           /\ payload' = r
           /\ messages' = b.messages
           /\ task_success' = b.task_success
           /\ action' = b.action
           /\ pc' = b.pc
    /\ UNCHANGED <<variant, session_id, scrollVars, messageVars,
                   iteration, trackerVars, first_iteration,
                   actions_without_progress, cached_web_elements, result,
                   driverVars>>

\* main of either variant: the call of execute_action.
Execute ==
    /\ pc = "execute"
    /\ LET d == IF variant = "tool"
                THEN ExecuteActionTool(action, cached_web_elements,
                                       current_url,
                                       FaultOn(cached_web_elements.url))
                ELSE ExecuteActionMultiTurn(action, cached_web_elements,
                                            current_url,
                                            FaultOn(cached_web_elements.url))
       IN  /\ result' = [success |-> d.success, message |-> d.message,
                         keys |-> {}]
           /\ driver_ops' = d.ops
           /\ current_url' = d.url
           /\ scrolled_by' = IF action.name = "scroll_page" /\ action.arg = "WINDOW"
                             THEN WindowScroll(variant, window_height, "down")
                             ELSE scrolled_by
    /\ pc' = "record"
    /\ UNCHANGED <<variant, session_id, window_height, messageVars,
                   iteration, clientVars, trackerVars,
                   messages, task_success, first_iteration,
                   actions_without_progress, cached_web_elements, action,
                   refreshes>>

\* sequrity_cua.py, main: the tool result, the refresh of the cache, the
\* progress counter and the stuck check that close an iteration.
\* body_text: whether driver.find_element(By.TAG_NAME, "body").text gave a
\* non-empty text; a capture that raises leaves website_texts = "".
Record(body_text) ==
    /\ variant = "tool" /\ pc = "record"
    /\ LET p == Progress(actions_without_progress, last_url, result.success,
                         current_url)
           shown == ShowsPage(action.name)
       IN  /\ messages' = ReportToolResult(messages, action.id, result.success,
                                           result.message, shown,
                                           IF shown THEN refreshes + 1 ELSE 0,
                                           shown /\ body_text)
           /\ refreshes' = refreshes + 1
           /\ cached_web_elements' = Elements(refreshes + 1, current_url)
           /\ actions_without_progress' = p.awp
           /\ last_url' = p.last_url
           /\ pc' = LoopExit(p.awp, iteration).pc
           /\ iteration' = LoopExit(p.awp, iteration).iteration
    /\ UNCHANGED <<variant, session_id, scrollVars, messageVars,
                   clientVars, failed_actions, stuck_count, stuck,
                   task_success, first_iteration, action, result, current_url,
                   driver_ops>>

\* sequrity_cua_multi_turn.py, main: the tool result closing an iteration.
RecordMultiTurn ==
    /\ variant = "multi" /\ pc = "record"
    /\ messages' = ReportToolResultMultiTurn(messages, action.id,
                                             result.success, result.message)
    /\ IF result.message = "task_complete"
       THEN pc' = "done" /\ iteration' = iteration
       ELSE /\ iteration' = iteration + 1
            /\ pc' = IF iteration + 1 < MaxIterations
                     THEN "observe" ELSE "done"
    /\ UNCHANGED <<variant, session_id, scrollVars, messageVars,
                   clientVars, trackerVars, task_success,
                   first_iteration, actions_without_progress,
                   cached_web_elements, action, result, driverVars>>

\* The page text is captured for check_website only.
RecordStep ==
    \E body_text \in (IF action.name = "check_website"
                       THEN BOOLEAN ELSE {TRUE}) : Record(body_text)

DecideStep ==
    \E r \in LoopResponses(NextId(messages)) :
        Allowed(r, messages, variant) /\ Decide(r)

DecideMultiTurnStep ==
    \E r \in LoopResponses(NextId(messages)) :
        Allowed(r, messages, variant) /\ DecideMultiTurn(r)

Next ==
    \/ Perceive
    \/ PerceiveMultiTurn
    \/ DecideStep
    \/ DecideMultiTurnStep
    \/ Execute
    \/ RecordStep
    \/ RecordMultiTurn

Spec == Init /\ [][Next]_vars

\* --------------------------------------- the client and the agents as objects
\* What the service may answer to a harness calling the client directly.
ClientResponses ==
    TransportErrors
    \cup {Response("ok", h, FALSE, "absent", "none", "none", TRUE, 0) :
             h \in Tokens \cup {NoHeader}}
    \cup {Response("ok", h, TRUE, f, "none", "none", TRUE, 0) :
             h \in Tokens \cup {NoHeader}, f \in FinishReasons}
    \cup {Response("ok", h, TRUE, f, "click_element", "0", TRUE, 1) :
             h \in Tokens \cup {NoHeader}, f \in FinishReasons}

\* The same for a harness calling the agents; a tool call may carry
\* arguments that are no JSON.
AgentResponses(id) ==
    TransportErrors
    \cup {Response("ok", h, FALSE, "absent", "none", "none", TRUE, 0) :
             h \in {NoHeader, "s1"}}
    \cup {Response("ok", h, TRUE, "stop", "none", "none", TRUE, 0) :
             h \in {NoHeader, "s1"}}
    \cup {Response("ok", h, TRUE, "tool_calls", "click_element", "0", ok, id) :
             h \in {NoHeader, "s1"}, ok \in BOOLEAN}

\* A variant of reset_session that forgets to clear the history.
ResetSessionKeepsHistory ==
    [session |-> ClientResetSession, messages |-> messages,
     failed_actions |-> <<>>, last_url |-> None, stuck_count |-> 0]

\* SequrityCUA.reset_session: the state it leaves behind.
ResetSession ==
    [session |-> ClientResetSession, messages |-> <<>>,
     failed_actions |-> <<>>, last_url |-> None, stuck_count |-> 0]

\* A constructed agent (SequrityCUA.__init__, SequrityCUAMultiTurn.__init__)
\* before main or a harness has used it.
AgentConstructed ==
    /\ variant \in Variants
    /\ pc = "api"
    /\ iteration = 0
    /\ client_session_id = None
    /\ request = NoRequest
    /\ response = NoResponse
    /\ payload = NoResponse
    /\ messages = <<>>
    /\ failed_actions = <<>>
    /\ last_url = None
    /\ stuck_count = 0
    /\ stuck = FALSE
    /\ task_success = FALSE
    /\ first_iteration = TRUE
    /\ actions_without_progress = 0
    /\ cached_web_elements = NoElements
    /\ action = NoCall
    /\ result = NoResult
    /\ current_url = "a"
    /\ refreshes = 0
    /\ driver_ops = <<>>
    /\ data_content = NoContent
    /\ message_content = NotBuilt
    /\ scrolled_by = 0

InitAgent == AgentConstructed /\ window_height = 900 /\ session_id = None

\* client.chat.completions.create(...) called on the client itself.
ClientCreate(r) ==
    /\ pc = "api"
    /\ client_session_id' = Create(client_session_id, r)
    /\ request' = Request(BuildHeaders(client_session_id), Len(messages), r)
    /\ response' = IF MakeRequest(r).error # "none" THEN r ELSE Received(r)
    /\ payload' = r
    /\ UNCHANGED <<variant, session_id, scrollVars, messageVars,
                   messages, trackerVars, loopVars, driverVars>>

\* client.reset_session() called on the client itself.
ClientReset ==
    /\ pc = "api"
    /\ client_session_id' = ClientResetSession
    /\ response' = NoResponse
    /\ payload' = NoResponse
    /\ UNCHANGED <<variant, session_id, scrollVars, messageVars,
                   request, messages, trackerVars, loopVars,
                   driverVars>>

\* What the service may deliver: each answer bare, inside an envelope, and
\* inside an envelope that is itself inside one.
Delivered(r) == r.status = "ok"
ClientPayloads ==
    ClientResponses
        \cup {Envelope(r) : r \in {x \in ClientResponses : Delivered(x)}}
        \cup {Envelope(Envelope(r)) :
                 r \in {x \in ClientResponses : Delivered(x)}}

ClientCreateStep == \E r \in ClientPayloads : ClientCreate(r)

NextClient == ClientCreateStep \/ ClientReset

SpecClient == InitAgent /\ [][NextClient]_vars

\* agent.add_system_prompt()
AgentAddSystemPrompt ==
    /\ pc = "api" /\ variant = "tool" /\ Len(messages) < MaxMessages
    /\ messages' = AddSystemPrompt(messages)
    /\ UNCHANGED <<variant, session_id, scrollVars, messageVars,
                   clientVars, trackerVars, loopVars, driverVars>>

\* agent.add_observation(screenshot, web_text)
AgentAddObservation ==
    /\ pc = "api" /\ variant = "tool" /\ Len(messages) < MaxMessages
    /\ messages' = AddObservation(messages, 1)
    /\ UNCHANGED <<variant, session_id, scrollVars, messageVars,
                   clientVars, trackerVars, loopVars, driverVars>>

\* agent.send_pllm_retry_command()
AgentSendPllmRetryCommand ==
    /\ pc = "api" /\ variant = "tool" /\ Len(messages) < MaxMessages
    /\ messages' = SendPllmRetryCommand(messages)
    /\ UNCHANGED <<variant, session_id, scrollVars, messageVars,
                   clientVars, trackerVars, loopVars, driverVars>>

\* agent.get_next_action() of the tool-calling agent
AgentGetNextAction(r) ==
    /\ pc = "api" /\ variant = "tool" /\ Len(messages) < MaxMessages
    /\ LET o == GetNextAction(messages, client_session_id, r)
       IN  /\ client_session_id' = o.session
           /\ request' = o.request
           /\ response' = r
           /\ payload' = r
           /\ messages' = o.messages
           /\ action' = o.ret
    /\ UNCHANGED <<variant, session_id, scrollVars, messageVars,
                   trackerVars, pc, iteration, task_success,
                   first_iteration, actions_without_progress,
                   cached_web_elements, result, driverVars>>

\* agent.get_next_action(...) of the multi-turn agent
AgentGetNextActionMultiTurn(r) ==
    /\ pc = "api" /\ variant = "multi" /\ Len(messages) < MaxMessages
    /\ LET o == GetNextActionMultiTurn(messages, client_session_id, r, 1)
       IN  /\ client_session_id' = o.session
           /\ request' = o.request
           /\ response' = r
           /\ payload' = r
           /\ messages' = o.messages
           /\ action' = o.ret
    /\ UNCHANGED <<variant, session_id, scrollVars, messageVars,
                   trackerVars, pc, iteration, task_success,
                   first_iteration, actions_without_progress,
                   cached_web_elements, result, driverVars>>

\* agent.report_tool_result(...) of the tool-calling agent
AgentReportToolResult(id, success, has_screenshot, has_web_text, has_website_texts) ==
    /\ pc = "api" /\ variant = "tool" /\ Len(messages) < MaxMessages
    /\ messages' = ReportToolResult(messages, id, success, "clicked",
                                    has_screenshot,
                                    IF has_web_text THEN 1 ELSE 0,
                                    has_website_texts)
    /\ UNCHANGED <<variant, session_id, scrollVars, messageVars,
                   clientVars, trackerVars, loopVars, driverVars>>

\* agent.report_tool_result(...) of the multi-turn agent
AgentReportToolResultMultiTurn(id, success) ==
    /\ pc = "api" /\ variant = "multi" /\ Len(messages) < MaxMessages
    /\ messages' = ReportToolResultMultiTurn(messages, id, success, "clicked")
    /\ UNCHANGED <<variant, session_id, scrollVars, messageVars,
                   clientVars, trackerVars, loopVars, driverVars>>

\* agent.reset_session() of the tool-calling agent
AgentResetSession ==
    /\ pc = "api" /\ variant = "tool"
    /\ client_session_id' = ResetSession.session
    /\ messages' = ResetSession.messages
    /\ failed_actions' = ResetSession.failed_actions
    /\ last_url' = ResetSession.last_url
    /\ stuck_count' = ResetSession.stuck_count
    /\ response' = NoResponse
    /\ payload' = NoResponse
    /\ UNCHANGED <<variant, session_id, scrollVars, messageVars,
                   request, stuck, loopVars, driverVars>>

AgentGetNextActionStep ==
    \E r \in AgentResponses(NextId(messages)) : AgentGetNextAction(r)

AgentGetNextActionMultiTurnStep ==
    \E r \in AgentResponses(NextId(messages)) : AgentGetNextActionMultiTurn(r)

AgentReportToolResultStep ==
    \E success \in BOOLEAN, has_screenshot \in BOOLEAN,
       has_web_text \in BOOLEAN, has_website_texts \in BOOLEAN :
        AgentReportToolResult(1, success, has_screenshot, has_web_text,
                              has_website_texts)

AgentReportToolResultMultiTurnStep ==
    \E success \in BOOLEAN : AgentReportToolResultMultiTurn(1, success)

NextAgent ==
    \/ AgentAddSystemPrompt
    \/ AgentAddObservation
    \/ AgentSendPllmRetryCommand
    \/ AgentGetNextActionStep
    \/ AgentGetNextActionMultiTurnStep
    \/ AgentReportToolResultStep
    \/ AgentReportToolResultMultiTurnStep
    \/ AgentResetSession

SpecAgent == InitAgent /\ [][NextAgent]_vars

\* --------------------------------------------- the progress tracker in use
\* The actions and pages a harness reports to track_progress.
TrackedActions ==
    {Call(1, "click_element", "0"), Call(1, "click_element", "9"),
     Call(1, "wait", "none"), Call(1, "type_text", "0"),
     Call(1, "scroll_page", "WINDOW")}

TrackedUrls == {"a", "b"}

InitTracker == InitAgent /\ variant = "tool"

\* agent.track_progress(action, success, current_url)
AgentTrackProgress(a, success, url) ==
    /\ pc = "api" /\ variant = "tool"
    /\ ~success => Len(failed_actions) < MaxFailedActions
    /\ LET t == TrackProgress(failed_actions, last_url, stuck_count, a,
                              success, url)
       IN  /\ t.stuck_count <= MaxStuckCount
           /\ failed_actions' = t.failed_actions
           /\ last_url' = t.last_url
           /\ stuck_count' = t.stuck_count
           /\ stuck' = t.stuck
    /\ UNCHANGED <<variant, session_id, scrollVars, messageVars,
                   clientVars, messages, loopVars,
                   driverVars>>

AgentTrackProgressStep ==
    \E a \in TrackedActions, success \in BOOLEAN, url \in TrackedUrls :
        AgentTrackProgress(a, success, url)

NextTracker == AgentTrackProgressStep \/ AgentResetSession

SpecTracker == InitTracker /\ [][NextTracker]_vars

\* ---------------------------------------- the window scroll in isolation
\* The heights window.innerHeight may report and the two directions of the
\* scroll_page tool.
ViewportHeights == (0..MaxHeight) \cup {900}
Directions == {"down", "up"}

InitScroll ==
    AgentConstructed /\ window_height \in ViewportHeights /\ session_id = None

\* execute_action({"tool_name": "scroll_page",
\*                 "arguments": {"target": "WINDOW", "direction": direction}})
ExecuteWindowScroll(direction) ==
    /\ pc = "api"
    /\ scrolled_by' = WindowScroll(variant, window_height, direction)
    /\ driver_ops' = <<"window_scroll">>
    /\ result' = [success |-> TRUE, message |-> "scrolled", keys |-> {}]
    /\ UNCHANGED <<variant, session_id, window_height, messageVars,
                   clientVars, messages,
                   trackerVars, pc, iteration, task_success, first_iteration,
                   actions_without_progress, cached_web_elements, action,
                   current_url, refreshes>>

ExecuteWindowScrollStep == \E d \in Directions : ExecuteWindowScroll(d)

NextScroll == ExecuteWindowScrollStep

SpecScroll == InitScroll /\ [][NextScroll]_vars

\* -------------------------- an agent constructed with a session id
\* SequrityCUA(api_key, base_url, model, session_id): the ids a caller may
\* supply, None being the default.
SuppliedSessionIds == {None} \cup Tokens

InitSession ==
    /\ AgentConstructed /\ variant = "tool" /\ window_height = 900
    /\ session_id \in SuppliedSessionIds

NextSession ==
    \/ AgentAddObservation
    \/ AgentGetNextActionStep
    \/ AgentResetSession

SpecSession == InitSession /\ [][NextSession]_vars

\* ------------------------------- the progress counter of main in isolation
\* sequrity_cua.py, main: "if actions_without_progress >=
\* max_actions_without_progress: ... break"
StuckAbort(awp) == awp >= max_actions_without_progress

InitProgress == InitAgent /\ variant = "tool"

\* sequrity_cua.py, main: the end of an iteration for an executed action
\* that returned success and left the browser on url: the result is
\* reported, the progress counter updated and the stuck check made.
MainCountsAction(success, url) ==
    /\ pc = "api" /\ variant = "tool" /\ Len(messages) < MaxActions
    /\ LET p == Progress(actions_without_progress, last_url, success, url)
       IN  /\ messages' = ReportToolResult(messages, 1, success,
                                           IF success THEN "clicked"
                                                      ELSE "error",
                                           FALSE, 0, FALSE)
           /\ result' = [success |-> success,
                         message |-> IF success THEN "clicked" ELSE "error",
                         keys |-> {}]
           /\ current_url' = url
           /\ actions_without_progress' = p.awp
           /\ last_url' = p.last_url
           /\ pc' = IF StuckAbort(p.awp) THEN "done" ELSE "api"
    /\ UNCHANGED <<variant, session_id, scrollVars, messageVars, clientVars,
                   failed_actions, stuck_count, stuck, iteration,
                   task_success, first_iteration, cached_web_elements,
                   action, refreshes, driver_ops>>

MainCountsActionStep ==
    \E success \in BOOLEAN, url \in TrackedUrls :
        (success \/ url = current_url) /\ MainCountsAction(success, url)

NextProgress == MainCountsActionStep

SpecProgress == InitProgress /\ [][NextProgress]_vars

\* ------------------------------------------------- Message(data) in isolation
\* The keys and the values of the thought/action mappings a decision-maker
\* writes into the content of a message.
ThoughtActionKeys == {"thought", "Thought", "action", "Action", "ACTION"}
Leaves == {VStr("t1"), VStr("t2"), VStr(""), VNull}
ThoughtActionDicts ==
    UNION {[K -> Leaves] : K \in SUBSET ThoughtActionKeys}

\* The values V a wrapper may carry, and the mappings a content may spell:
\* a thought/action mapping, the wrapper {"final_return_value": {"value": V}},
\* a wrapper without "value", a wrapper whose final_return_value is null.
WrappedValues ==
    {VDict(d) : d \in ThoughtActionDicts} \cup {VStr("t1"), VNum, VNull}

Wrapper(V) == [k \in {"final_return_value"} |-> VDict([j \in {"value"} |-> V])]

Mappings ==
    ThoughtActionDicts
        \cup {Wrapper(V) : V \in WrappedValues}
        \cup {[k \in {"final_return_value"} |-> VDict(<<>>)],
              [k \in {"final_return_value"} |-> VNull]}

\* What data.get("content", "") may be.
Contents ==
    {Obj(q, d) : q \in {"dq", "sq"}, d \in Mappings}
        \cup {Text(""), Text("hello"), Text("5"), Text("null"), Text("None"),
              ContentNull, ContentList}

InitMessage ==
    /\ variant = "tool"
    /\ pc = "message"
    /\ iteration = 0
    /\ client_session_id = None
    /\ request = NoRequest
    /\ response = NoResponse
    /\ payload = NoResponse
    /\ messages = <<>>
    /\ failed_actions = <<>>
    /\ last_url = None
    /\ stuck_count = 0
    /\ stuck = FALSE
    /\ task_success = FALSE
    /\ first_iteration = TRUE
    /\ actions_without_progress = 0
    /\ cached_web_elements = NoElements
    /\ action = NoCall
    /\ result = NoResult
    /\ current_url = "a"
    /\ refreshes = 0
    /\ driver_ops = <<>>
    /\ data_content \in Contents
    /\ message_content = NotBuilt
    /\ window_height = 900
    /\ session_id = None
    /\ scrolled_by = 0

\* Message.__init__: self.content = self._extract_content(data.get("content", ""))
MessageInit ==
    /\ pc = "message"
    /\ message_content' = ExtractContent(data_content)
    /\ pc' = "message_built"
    /\ UNCHANGED <<variant, session_id, scrollVars, data_content,
                   iteration, clientVars, messages,
                   trackerVars, task_success, first_iteration,
                   actions_without_progress, cached_web_elements, action,
                   result, driverVars>>

NextMessage == MessageInit

SpecMessage == InitMessage /\ [][NextMessage]_vars

\* ------------------------------------------------------------------ claims
IsAssistantCall(m) == m.role = "assistant" /\ m.call # NoCall

\* The history holds the terminal answer call of the variant.
TerminalDecided(msgs, v) ==
    \E i \in 1..Len(msgs) :
        IsAssistantCall(msgs[i]) /\ msgs[i].call.name = TerminalTool(v)

\* The last turn of the history is an assistant turn without a tool call.
EndsWithoutToolCall(msgs) ==
    /\ Len(msgs) > 0
    /\ msgs[Len(msgs)].role = "assistant"
    /\ msgs[Len(msgs)].call = NoCall

\* The refresh whose element digest was delivered last (0: none yet).
LastDigest(msgs) ==
    LET shown == {i \in 1..Len(msgs) : msgs[i].digest # 0}
    IN  IF shown = {} THEN 0
        ELSE msgs[CHOOSE i \in shown : \A j \in shown : j <= i].digest

\* The tool turns of the history that echo a call id.
ResultsFor(msgs, id) ==
    {i \in 1..Len(msgs) : msgs[i].role = "tool" /\ msgs[i].tool_call_id = id}

\* The history ends with k failed actions of identical name and arguments.
FailedTail(msgs, k) ==
    /\ Len(msgs) >= 2 * k
    /\ \A n \in 0..(k - 1) :
          LET a == msgs[Len(msgs) - 2 * n - 1]
              t == msgs[Len(msgs) - 2 * n]
              first == msgs[Len(msgs) - 1]
          IN  /\ IsAssistantCall(a)
              /\ a.call.name = first.call.name
              /\ a.call.arg = first.call.arg
              /\ t.role = "tool"
              /\ t.tool_call_id = a.call.id
              /\ ~t.result.success

\* The current action takes a label and the label is not in the element set
\* execute_action was given.
LabelAbsent ==
    /\ action.name \in {"click_element", "type_text", "scroll_page"}
    /\ action.arg \notin {"WINDOW", "missing"}
    /\ ~Found(action.arg, cached_web_elements)

\* A step that is a create call of the client.
IsCreate == \E r \in ClientPayloads : ClientCreate(r)

\* C1 (as stated): after a successful call and no reset, the next request
\* carries X-Session-Id if and only if the finish reason of the previous
\* response's first choice was not "stop" (taken for the responses that have
\* a first choice with a finish reason).
C1_HeaderIffNotStop ==
    [][(/\ response.status = "ok"
        /\ response.has_choice /\ response.finish # "absent"
        /\ IsCreate)
         => ((request'.hdr # NoHeader) <=> (response.finish # "stop"))]_vars

\* C1 (amended): after a successful call and no reset, the next request
\* carries X-Session-Id if and only if the previous response delivered a
\* token in its headers and the raw finish reason of its first choice was
\* not "stop" (a missing finish reason or a missing first choice is not
\* "stop"); the header then carries exactly that token.
C1_HeaderIffTokenAndNotStop ==
    [][(response.status = "ok" /\ IsCreate)
         => /\ (request'.hdr # NoHeader)
                 <=> /\ response.hdr # NoHeader
                     /\ ~(response.has_choice /\ response.finish = "stop")
            /\ request'.hdr # NoHeader => request'.hdr = response.hdr]_vars

\* C1 witness: a request carried the token of the response before it, and a
\* response without a token has been received after a tool-use turn's token
\* was in use.
C1_Witness ==
    /\ request.hdr \in Tokens
    /\ response.status = "ok"
    /\ response.hdr = NoHeader
    /\ response.finish = "tool_calls"
    /\ client_session_id = None

\* A step in which the client's reset_session runs.
ResetsSession == AgentResetSession \/ AgentGetNextActionMultiTurnStep

\* C2 (as stated): in every agent variant a step that resets the session
\* leaves the history empty, and a step that empties the history leaves no
\* session token.
C2_ResetAtomic ==
    [][/\ ResetsSession => messages' = <<>>
       /\ (messages # <<>> /\ messages' = <<>>) => client_session_id' = None
      ]_vars

\* C2 (amended): reset_session of the tool-calling agent clears the token and
\* the history in one step and no operation of either agent empties the
\* history while a token stays held; the multi-turn agent resets the token
\* at the head of every decision call and keeps the history, which that call
\* extends.
C2_ResetAtomicToolAgent ==
    [][/\ AgentResetSession
            => messages' = <<>> /\ client_session_id' = None
       /\ (messages # <<>> /\ messages' = <<>>) => client_session_id' = None
       /\ AgentGetNextActionMultiTurnStep
            => /\ Len(messages') > Len(messages)
               /\ SubSeq(messages', 1, Len(messages)) = messages
               /\ request'.hdr = NoHeader
      ]_vars

\* C2 witness: a tool-calling agent that sent a request with a non-empty
\* history while holding a token stands reset: no turns, no token.
C2_Witness ==
    /\ variant = "tool"
    /\ request.n > 0 /\ request.hdr \in Tokens
    /\ response = NoResponse
    /\ messages = <<>>
    /\ client_session_id = None

\* C3: an action whose label is absent from the element set it is resolved
\* against settles as a failed "element not found" and touches no element.
C3_AbsentLabelNotFound ==
    (pc = "record" /\ LabelAbsent)
        => /\ ~result.success
           /\ result.message = "not_found"
           /\ driver_ops = <<>>

\* C4: in the tool-calling loop the element set an action is executed
\* against is the one whose digest the decision-maker was shown last.
C4_ResolvedAgainstShownDigest ==
    (variant = "tool" /\ pc = "execute")
        => cached_web_elements.epoch = LastDigest(messages)

C6_ThreeFailuresAbort ==
    (variant = "tool" /\ FailedTail(messages, 3)) => pc = "done"

\* The loop was left by the explicit answer of the decision-maker.
Answered == TerminalDecided(messages, variant)

\* C7 (as stated): a loop that ended without an answer ran out of iterations
\* or reached the stuck threshold.
C7_OnlyBoundOrStuck ==
    (pc = "done" /\ ~Answered)
        => \/ iteration = MaxIterations
           \/ /\ variant = "tool"
              /\ actions_without_progress >= max_actions_without_progress

\* C7 (amended): a loop that ended without an answer ran out of iterations,
\* reached the stuck threshold of five actions without progress (tool-calling
\* loop only), or received a decision response without a tool call; a failed
\* action alone never ends it.
C7_OnlyBoundStuckOrNoToolCall ==
    (pc = "done" /\ ~Answered)
        => \/ iteration = MaxIterations
           \/ /\ variant = "tool"
              /\ actions_without_progress >= max_actions_without_progress
           \/ EndsWithoutToolCall(messages)

\* C7 witness: the loop ended on a response without a tool call after a
\* failed action, with iterations left and the stuck threshold not reached.
C7_Witness ==
    /\ pc = "done" /\ ~Answered
    /\ EndsWithoutToolCall(messages)
    /\ 0 < iteration /\ iteration < MaxIterations
    /\ 0 < actions_without_progress
    /\ actions_without_progress < max_actions_without_progress

\* C8: the step that records the terminal answer call ends the loop, and no
\* step (decision call or browser action) is taken once the history holds it.
C8_AnswerEndsTask ==
    [][/\ ~TerminalDecided(messages, variant)
       /\ TerminalDecided(messages', variant) => pc' = "done"]_vars

\* C8 witness: the answer arrived in the middle of a task, with iterations
\* left and failed actions counted, and the loop has ended.
C8_Witness ==
    /\ Answered /\ pc = "done"
    /\ 0 < iteration /\ iteration < MaxIterations
    /\ actions_without_progress > 0

\* C9: the tool-calling loop reports success exactly when the history holds
\* an answer call of the decision-maker, and a loop that ended without one
\* added no turn of its own after the last response or tool result.
C9_SuccessIffAnswer ==
    variant = "tool"
        => /\ task_success <=> TerminalDecided(messages, "tool")
           /\ (pc = "done" /\ ~task_success)
                => messages[Len(messages)].role \in {"assistant", "tool"}

\* C9 witness: the loop ended by the stuck abort and reports failure.
C9_Witness ==
    /\ variant = "tool" /\ pc = "done" /\ ~task_success
    /\ actions_without_progress >= max_actions_without_progress
    /\ iteration < MaxIterations

\* C10: whenever a loop is about to decide again or has ended, every
\* assistant turn with a tool call has exactly one tool turn echoing its id.
C10_OneResultPerCall ==
    pc \in {"observe", "decide", "done"}
        => \A i \in 1..Len(messages) :
             IsAssistantCall(messages[i])
                => Cardinality(ResultsFor(messages, messages[i].call.id)) = 1

\* s is a prefix of t: every turn of s stands unchanged at its place in t.
IsPrefix(s, t) == Len(s) <= Len(t) /\ SubSeq(t, 1, Len(s)) = s

\* C11: every operation of either agent other than reset_session leaves the
\* previous history as an unmodified prefix of the new history.
C11_AppendOnly ==
    [][AgentResetSession \/ IsPrefix(messages, messages')]_vars

\* C11 witness: the history of a tool-calling agent grown by two operations,
\* add_observation and then get_next_action, to an observation carrying a
\* digest followed by an assistant turn with a tool call.
C11_Witness ==
    /\ pc = "api" /\ variant = "tool" /\ Len(messages) = 2
    /\ messages[1].role = "user" /\ messages[1].digest # 0
    /\ IsAssistantCall(messages[2])

\* The last decision response carried a tool call whose arguments string
\* does not parse as JSON.
UnparseableArguments ==
    /\ response.status = "ok" /\ response.has_choice
    /\ response.name # "none" /\ ~response.args_ok

\* C12: a decision response whose tool-call arguments do not parse never
\* takes the control loop down: get_next_action returns and the loop goes on
\* or ends by one of its own exits.
C12_DecodeFailureRecovered == UnparseableArguments => pc # "crashed"

\* No decode of _extract_content applies to a content: it is not the JSON
\* text of a wrapper holding a value, and it is not a mapping that parses
\* once its quotes are made JSON quotes.
NoVariantDecodes(c) ==
    /\ ~(/\ JsonLoads(c).raised = "no"
         /\ FinalReturnValue(JsonLoads(c).value).found = "yes")
    /\ ~(/\ c.t = "obj" /\ DOMAIN c.d # {}
         /\ (c.q = "dq" \/ ~HasNull(VDict(c.d))))

\* C13: building a Message never raises, whatever the content (string,
\* empty string, JSON null, list), and a content no variant decodes is
\* returned unchanged.
C13_NormalizationNeverRaises ==
    pc = "message_built"
        => /\ message_content.raised = "no"
           /\ NoVariantDecodes(data_content)
                => message_content.content = data_content

\* The content is the JSON text {"final_return_value": {"value": V}}.
IsWrapperJson(c) ==
    /\ c.t = "obj" /\ c.q = "dq"
    /\ DOMAIN c.d = {"final_return_value"}
    /\ c.d["final_return_value"].t = "dict"
    /\ DOMAIN c.d["final_return_value"].d = {"value"}

WrappedValue(c) == c.d["final_return_value"].d["value"]

\* The keys of a mapping that spell a field name in some letter case.
KeysSpelling(d, field) ==
    {k \in DOMAIN d :
        \/ field = "thought" /\ k \in {"thought", "Thought", "THOUGHT"}
        \/ field = "action" /\ k \in {"action", "Action", "ACTION"}}

\* C14 (as stated): for a wrapper content, a V that is an object with a
\* thought field and an action field under keys of any letter case gives the
\* two lines "Thought: .." and "Action: .." made of those fields; any other V
\* gives str(V).
C14_WrappedValueFormatted ==
    (pc = "message_built" /\ IsWrapperJson(data_content))
        => LET V == WrappedValue(data_content)
               out == message_content.content
           IN  IF /\ V.t = "dict"
                  /\ KeysSpelling(V.d, "thought") # {}
                  /\ KeysSpelling(V.d, "action") # {}
               THEN /\ out.t = "lines"
                    /\ \E k \in KeysSpelling(V.d, "thought") :
                          out.thought = PyStr(V.d[k])
                    /\ \E k \in KeysSpelling(V.d, "action") :
                          out.action = PyStr(V.d[k])
               ELSE out = PyStr(V)

\* The line a field contributes: its non-empty text under the lowercase key,
\* failing that under the capitalized key, else no line.
FieldLine(d, lower, capitalized) ==
    IF lower \in DOMAIN d /\ d[lower].t = "str" /\ d[lower].s # ""
    THEN Text(d[lower].s)
    ELSE IF /\ capitalized \in DOMAIN d
            /\ d[capitalized].t = "str" /\ d[capitalized].s # ""
    THEN Text(d[capitalized].s)
    ELSE Absent

\* C14 (amended): for a wrapper content whose V is an object, the result is
\* the line "Thought: .." if V has a non-empty thought under the key thought
\* or Thought and the line "Action: .." if it has a non-empty action under
\* action or Action (one line, or both joined by a newline); a V that is no
\* object or gives neither line is stringified.
C14_WrappedValueFormattedByKeys ==
    (pc = "message_built" /\ IsWrapperJson(data_content))
        => LET V == WrappedValue(data_content)
               thought == IF V.t = "dict"
                          THEN FieldLine(V.d, "thought", "Thought")
                          ELSE Absent
               action_ == IF V.t = "dict"
                          THEN FieldLine(V.d, "action", "Action")
                          ELSE Absent
           IN  /\ message_content.raised = "no"
               /\ message_content.content =
                    IF thought # Absent \/ action_ # Absent
                    THEN Lines(thought, action_)
                    ELSE PyStr(V)

\* C14 witness: a wrapper whose V holds an empty thought, a capitalized
\* Thought and an all-caps ACTION has been normalized to the one line
\* "Thought: t1".
C14_Witness ==
    /\ pc = "message_built"
    /\ IsWrapperJson(data_content)
    /\ WrappedValue(data_content).t = "dict"
    /\ WrappedValue(data_content).d =
          [k \in {"thought", "Thought", "ACTION"} |->
              IF k = "thought" THEN VStr("")
              ELSE IF k = "Thought" THEN VStr("t1") ELSE VStr("t2")]
    /\ message_content.content = Lines(Text("t1"), Absent)

\* C15: a mapping written with single quotes (and differing from JSON in its
\* quoting only) normalizes to what the same mapping written as valid JSON
\* normalizes to; so does the single-quoted wrapper
\* {'final_return_value': {'value': V}}.
C15_SingleQuotedAsDoubleQuoted ==
    (/\ pc = "message_built"
     /\ data_content.t = "obj" /\ data_content.q = "sq"
     /\ ~HasNull(VDict(data_content.d)))
        => message_content = ExtractContent(Obj("dq", data_content.d))

\* The keys a tool result may carry.
ToolResultKeys ==
    {"success", "message", "screenshot", "web_elements", "website_texts"}

\* C16: report_tool_result of either agent appends exactly one turn, a tool
\* turn, whose JSON object has its keys among the five result keys and
\* always holds success and message, whatever enrichment is supplied.
C16_OneToolTurnWithResultKeys ==
    [][(AgentReportToolResultStep \/ AgentReportToolResultMultiTurnStep)
         => /\ Len(messages') = Len(messages) + 1
            /\ IsPrefix(messages, messages')
            /\ messages'[Len(messages')].role = "tool"
            /\ messages'[Len(messages')].result.keys \subseteq ToolResultKeys
            /\ {"success", "message"}
                 \subseteq messages'[Len(messages')].result.keys]_vars

\* C16 witness: a result was reported with a screenshot and page texts but
\* without an element digest.
C16_Witness ==
    /\ pc = "api" /\ Len(messages) > 0
    /\ messages[Len(messages)].role = "tool"
    /\ messages[Len(messages)].result.keys =
          {"success", "message", "screenshot", "website_texts"}

\* The tool turns of the history that answer a check_website call.
CheckWebsiteResults(msgs) ==
    {i \in 1..Len(msgs) :
        /\ msgs[i].role = "tool"
        /\ \E j \in 1..Len(msgs) :
              /\ IsAssistantCall(msgs[j])
              /\ msgs[j].call.name = "check_website"
              /\ msgs[j].call.id = msgs[i].tool_call_id}

\* C17: every tool result recorded for a check_website call holds all five
\* fields success, message, screenshot, web_elements and website_texts.
C17_CheckWebsiteFiveFields ==
    \A i \in CheckWebsiteResults(messages) :
        messages[i].result.keys = ToolResultKeys

\* C18: a response (HTTP 200) without a session token leaves the client
\* without a token, whatever its finish reason and whatever token was held,
\* and the request after it carries no X-Session-Id.
C18_MissingTokenResets ==
    [][/\ (IsCreate /\ response'.status = "ok" /\ response'.hdr = NoHeader)
            => client_session_id' = None
       /\ (IsCreate /\ response.status = "ok" /\ response.hdr = NoHeader)
            => request'.hdr = NoHeader]_vars

\* C18 witness: a request went out with a held token and its response, finish
\* reason "length", came back without one; the client holds none.
C18_Witness ==
    /\ pc = "api"
    /\ request.hdr \in Tokens
    /\ response.status = "ok" /\ response.hdr = NoHeader
    /\ response.has_choice /\ response.finish = "length"
    /\ client_session_id = None

\* C19: the first request after construction or after reset_session carries
\* no X-Session-Id, and every request carries the header exactly when the
\* client holds a token at that moment, with that token as its value.
C19_HeaderIsHeldToken ==
    [][IsCreate
         => /\ response = NoResponse => request'.hdr = NoHeader
            /\ request'.hdr # NoHeader <=> client_session_id # None
            /\ request'.hdr # NoHeader => request'.hdr = client_session_id
      ]_vars

\* C19 witness: a request carried the held token s2 and the response to it
\* delivered the token s1 of a continuing turn, which the client now holds.
C19_Witness ==
    /\ pc = "api"
    /\ request.hdr = "s2"
    /\ response.status = "ok" /\ response.hdr = "s1"
    /\ client_session_id = "s1"

\* C20: a create call posts its request once, whatever the outcome; a non-200
\* status or a network failure makes it raise an error carrying the status
\* and text (or the text of the network exception) without returning a
\* response, the held token untouched.
C20_NoRetryOnTransportError ==
    [][IsCreate
         => /\ request'.posts = 1
            /\ response'.status = "http_error"
                 => /\ request'.error = "HTTP status: text"
                    /\ client_session_id' = client_session_id
            /\ response'.status = "network_error"
                 => /\ request'.error = "Request exception: text"
                    /\ client_session_id' = client_session_id
            /\ response'.status = "ok" => request'.error = "none"]_vars

\* C20 witness: a call made while a token was held failed with a non-200
\* status; one request was posted and the token is still held.
C20_Witness ==
    /\ pc = "api"
    /\ response.status = "http_error"
    /\ request.hdr \in Tokens /\ request.posts = 1
    /\ request.error = "HTTP status: text"
    /\ client_session_id = request.hdr

\* A step that is a track_progress call for a failed action.
TracksFailure ==
    \E a \in TrackedActions, url \in TrackedUrls :
        AgentTrackProgress(a, FALSE, url)

\* C21 (as stated): a track_progress call returns stuck exactly when the
\* stuck counter is at least 3 after the call.
C21_StuckIffCounterAtThree ==
    [][AgentTrackProgressStep => (stuck' <=> stuck_count' >= 3)]_vars

\* C21 (amended): a track_progress call returns stuck exactly when it is a
\* call for a failed action that makes the last three fingerprints identical
\* or the stuck counter is at least 3 after the call.
C21_StuckIffRepeatOrCounterAtThree ==
    [][AgentTrackProgressStep
         => (stuck' <=> \/ stuck_count' >= 3
                        \/ /\ TracksFailure
                           /\ SameActionFailedThrice(failed_actions'))]_vars

\* C21 witness: the third identical failure was reported as stuck with the
\* counter standing at 1.
C21_Witness ==
    /\ pc = "api" /\ stuck /\ stuck_count = 1
    /\ SameActionFailedThrice(failed_actions)

\* C22: a track_progress call for a failed action appends exactly one
\* fingerprint and moves the stuck counter by the repeated-failure rule
\* only: up by one if the last three fingerprints are identical, else not at
\* all.
C22_FailureCountsByRepeatOnly ==
    [][TracksFailure
         => /\ Len(failed_actions') = Len(failed_actions) + 1
            /\ stuck_count' = IF SameActionFailedThrice(failed_actions')
                              THEN stuck_count + 1 ELSE stuck_count]_vars

\* C23: a track_progress call for a successful action raises the stuck
\* counter by one when the URL is that of the prior check and the action is
\* none of wait, scroll_page, type_text; leaves it when the URL is unchanged
\* and the action is one of the three; sets it to zero when the URL changed.
C23_SuccessCountsByUrl ==
    [][\A a \in TrackedActions, url \in TrackedUrls :
          AgentTrackProgress(a, TRUE, url)
            => stuck_count' =
                 IF last_url # url THEN 0
                 ELSE IF a.name \in {"wait", "scroll_page", "type_text"}
                 THEN stuck_count
                 ELSE stuck_count + 1]_vars

\* C23 witness: two successful clicks that stayed on page a have raised the
\* counter to 2, no action having failed.
C23_Witness ==
    /\ pc = "api" /\ failed_actions = <<>>
    /\ last_url = "a" /\ stuck_count = 2 /\ ~stuck

\* C24: the call that completes three failed actions of identical
\* fingerprint raises the stuck counter by one, whatever the tracker held
\* before them.
C24_ThirdIdenticalFailureCounts ==
    [][(TracksFailure /\ SameActionFailedThrice(failed_actions'))
         => stuck_count' = stuck_count + 1]_vars

\* C24 witness: three identical failures that followed a different failure
\* and two counted actions stand recorded with the counter raised to 3.
C24_Witness ==
    /\ pc = "api" /\ Len(failed_actions) = 4
    /\ failed_actions[1] # failed_actions[2]
    /\ SameActionFailedThrice(failed_actions)
    /\ stuck_count = 3

\* C25: a whole-window scroll moves the page by two thirds of the height of
\* the viewport (integer division), downwards for direction "down" and
\* upwards for "up", in the executor of either variant; a 900px viewport
\* scrolls down by 600px.
C25_WindowScrollTwoThirds ==
    [][\A d \in Directions :
          ExecuteWindowScroll(d)
            => /\ scrolled_by' = IF d = "down"
                                 THEN (window_height * 2) \div 3
                                 ELSE -((window_height * 2) \div 3)
               /\ (window_height = 900 /\ d = "down") => scrolled_by' = 600]_vars

\* The tools the execute_action of a variant has a branch for.
ExecutorTools(v) ==
    {"click_element", "type_text", "scroll_page", "wait", "go_back",
     "google_search"}
        \cup (IF v = "tool" THEN {"check_website", "answer"}
                            ELSE {"mark_finished"})

\* The last driver call of an execute_action raised, so the exception
\* reached the handler of the whole function.
RaisedOut(ops) == Len(ops) > 0 /\ ops[Len(ops)] \in
    {"click!", "script_click!", "scrollIntoView!", "focus!", "scrollTop!",
     "clear!"}

\* C26: execute_action returns for every action record (the loop goes on to
\* record its result); an exception of the driver, a missing required
\* argument and an unknown tool name are returned as a failure with its
\* reason; and the loop appends what was returned as the tool result of the
\* call before it decides again or ends.
C26_FailuresBecomeFailedResults ==
    [][/\ pc = "execute" => pc' = "record"
       /\ pc = "record"
            => LET t == messages'[Len(messages')]
               IN  /\ Len(messages') = Len(messages) + 1
                   /\ pc' \in {"decide", "observe", "done"}
                   /\ t.role = "tool" /\ t.tool_call_id = action.id
                   /\ t.result.success = result.success
                   /\ t.result.message = result.message
                   /\ ( \/ RaisedOut(driver_ops)
                        \/ MissingArgument(action)
                        \/ action.name \notin ExecutorTools(variant) )
                        => /\ ~t.result.success
                           /\ t.result.message \in {"error", "unknown_tool"}]_vars

\* C26 witness: the tool-calling loop is about to decide again with the
\* failure of a call without its label recorded as the last turn.
C26_Witness ==
    /\ variant = "tool" /\ pc = "decide" /\ MissingArgument(action)
    /\ messages[Len(messages)].role = "tool"
    /\ messages[Len(messages)].tool_call_id = action.id
    /\ ~messages[Len(messages)].result.success
    /\ messages[Len(messages)].result.message = "error"

\* The number of turns of a role in the history.
TurnsOf(role) == Cardinality({i \in 1..Len(messages) : messages[i].role = role})

\* C27: the loop is sequential and bounded.  A decision is called for in an
\* iteration below max_iterations, after as many decisions and as many
\* recorded results as iterations have gone by; an action is executed and
\* recorded with exactly the decision of its iteration ahead of it; every
\* result stands right behind the decision it answers; and the decisions
\* never exceed max_iterations.
C27_SequentialAndBounded ==
    /\ iteration <= MaxIterations
    /\ TurnsOf("assistant") <= MaxIterations
    /\ pc \in {"observe", "decide"}
         => /\ iteration < MaxIterations
            /\ TurnsOf("assistant") = iteration
            /\ TurnsOf("tool") = iteration
    /\ pc \in {"execute", "record"}
         => /\ iteration < MaxIterations
            /\ TurnsOf("assistant") = iteration + 1
            /\ TurnsOf("tool") = iteration
            /\ messages[Len(messages)] = AssistantTurn(action)
    /\ \A i \in 1..Len(messages) :
          /\ messages[i].role = "tool"
               => /\ i > 1
                  /\ messages[i-1].role = "assistant"
                  /\ messages[i-1].call.id = messages[i].tool_call_id
          /\ (messages[i].role = "assistant" /\ i < Len(messages))
               => messages[i+1].role = "tool"

\* C27 witness: the loop has ended by running out of iterations, with
\* max_iterations decisions made and each of them answered by one result.
C27_Witness ==
    /\ pc = "done" /\ iteration = MaxIterations
    /\ TurnsOf("assistant") = MaxIterations
    /\ TurnsOf("tool") = MaxIterations

Attempted(op) == \E i \in 1..Len(driver_ops) : driver_ops[i] = op

\* C29: when the native clear of a type_text action raises, the select-all
\* sequence is attempted all the same and the action does not fail for it.
C29_ClearFallsBackAndNeverFails ==
    (pc = "record" /\ action.name = "type_text" /\ Attempted("clear!"))
        => /\ Attempted("select_all")
           /\ result.success

\* C30: every decision call of the multi-turn loop sends its request
\* without a continuation header, whatever token the call before left, and
\* sends a history that holds every turn recorded so far and is longer than
\* the one sent before; the reset ahead of the call drops no turn.
C30_MultiTurnFreshSessionGrowingHistory ==
    [][DecideMultiTurnStep
         => /\ request'.hdr = NoHeader
            /\ request'.n = Len(messages) + 1
            /\ request'.n > request.n
            /\ IsPrefix(messages, messages')]_vars

\* C30 witness: the multi-turn loop has made its second decision call
\* without a header, the first having answered with a session token, and
\* holds the token of the second.
C30_Witness ==
    /\ variant = "multi" /\ pc = "execute" /\ iteration = 1
    /\ request.hdr = NoHeader /\ request.n = 4
    /\ client_session_id \in LoopHeaders

\* C31: the stuck abort of the tool-calling loop fires only when the five
\* most recent executed actions all failed.
C31_AbortOnlyAfterFiveFailuresInARow ==
    (pc = "done" /\ StuckAbort(actions_without_progress))
        => /\ Len(messages) >= 5
           /\ \A i \in (Len(messages) - 4)..Len(messages) :
                 ~messages[i].result.success

\* C33: the first request of a tool-calling agent constructed with a
\* session id carries that id to the service, as the X-Session-Id header or
\* as a field of the body.
C33_SuppliedSessionIdSent ==
    [][(AgentGetNextActionStep /\ session_id # None /\ request = NoRequest)
         => \/ request'.hdr = session_id
            \/ "session_id" \in BuildRequestBody(RequestParams(session_id))]_vars

\* The tool turns of the history that answer a call of another tool than
\* check_website.
OtherToolResults(msgs) ==
    {i \in 1..Len(msgs) :
        /\ msgs[i].role = "tool"
        /\ \E j \in 1..Len(msgs) :
              /\ IsAssistantCall(msgs[j])
              /\ msgs[j].call.name # "check_website"
              /\ msgs[j].call.id = msgs[i].tool_call_id}

\* C32: the tool result recorded for a call of any tool but check_website
\* has the two keys success and message and no others, and carries no
\* element digest.
C32_OnlyCheckWebsiteShowsPage ==
    \A i \in OtherToolResults(messages) :
        /\ messages[i].result.keys = {"success", "message"}
        /\ messages[i].digest = 0

\* C32 witness: the tool-calling loop has ended on an answer after a click,
\* both results standing recorded.
C32_Witness ==
    /\ variant = "tool" /\ pc = "done" /\ task_success
    /\ \E i, j \in OtherToolResults(messages) :
          /\ i < j
          /\ messages[i-1].call.name = "click_element"
          /\ messages[j-1].call.name = "answer"
          /\ messages[j].result.success

\* C34: a decision response (HTTP 200) without choices is recovered: the
\* decision step that receives it ends in the loop going on or ending in
\* order, not in an exception leaving main.
C34_NoChoicesRecovered ==
    [][((DecideStep \/ DecideMultiTurnStep)
          /\ response'.status = "ok" /\ ~response'.has_choice)
         => pc' \in {"done", "execute", "decide", "observe"}]_vars

\* C35: of a response with several tool calls the first alone is recorded
\* and executed: the decision step appends one assistant turn, holding the
\* first call, and hands that call to execute_action; and the history never
\* holds more results than decisions.
C35_FirstToolCallOnly ==
    [][((DecideStep \/ DecideMultiTurnStep) /\ "more" \in DOMAIN response')
         => LET first == Call(response'.id, response'.name, response'.arg)
            IN  /\ messages'[Len(messages')] = AssistantTurn(first)
                /\ TurnsOf("assistant")' = TurnsOf("assistant") + 1
                /\ pc' = "execute" => action' = first
                /\ TurnsOf("tool")' <= TurnsOf("assistant")']_vars

\* C35 witness: the first call of a response with two tool calls stands
\* recorded and executed, and the loop has moved on to record its result.
C35_Witness ==
    /\ pc = "record" /\ "more" \in DOMAIN response
    /\ action = Call(response.id, "click_element", "0")
    /\ messages[Len(messages)] = AssistantTurn(action)
    /\ result.success

\* C36: a get_next_action call of the tool-calling agent whose request
\* fails in transport (an HTTP status other than 200, or no answer at all)
\* leaves the history and the session token of the client as they were.
C36_FailedCallChangesNothing ==
    [][\A r \in TransportErrors :
          AgentGetNextAction(r)
            => /\ messages' = messages
               /\ client_session_id' = client_session_id]_vars

\* C36 witness: a call sent with the held token and a non-empty history
\* has failed, and token and history are still there.
C36_Witness ==
    /\ pc = "api" /\ variant = "tool"
    /\ response \in TransportErrors
    /\ request.hdr \in Tokens /\ request.n > 0
    /\ client_session_id = request.hdr
    /\ Len(messages) = request.n

\* C37: after a create call that was answered (HTTP 200) the client holds
\* no token or the token of the X-Session-Id header of that answer, never
\* one an earlier answer delivered.
C37_TokenIsNoneOrOfThisResponse ==
    [][(IsCreate /\ response'.status = "ok")
         => \/ client_session_id' = None
            \/ /\ response'.hdr \in Tokens
               /\ client_session_id' = response'.hdr]_vars

\* C37 witness: a request sent with the token s1 was answered with the
\* token s2, which is the one held now.
C37_Witness ==
    /\ pc = "api" /\ response.status = "ok"
    /\ request.hdr = "s1" /\ response.hdr = "s2"
    /\ client_session_id = "s2"

\* C38: whenever the first choice of the ChatCompletion a create call
\* returns reports the finish reason "stop", the payload having spelled it
\* or left it out, the client holds no token after the call.
C38_ExposedStopMeansNoToken ==
    [][(IsCreate /\ response'.status = "ok" /\ response'.has_choice
          /\ ChoiceFinishReason(response') = "stop")
         => client_session_id' = None]_vars

\* C39: a decision request of the tool-calling loop carries the whole
\* history, which ends with a user turn or a tool turn, in which every tool
\* turn stands right behind the assistant turn whose call id it echoes, and
\* in which every assistant tool call is answered.
C39_RequestHistoryWellFormed ==
    [][DecideStep
         => /\ request'.n = Len(messages)
            /\ Len(messages) > 0
            /\ messages[Len(messages)].role \in {"user", "tool"}
            /\ \A i \in 1..Len(messages) :
                  /\ messages[i].role = "tool"
                       => /\ i > 1
                          /\ IsAssistantCall(messages[i-1])
                          /\ messages[i].tool_call_id = messages[i-1].call.id
                  /\ IsAssistantCall(messages[i])
                       => /\ i < Len(messages)
                          /\ messages[i+1].role = "tool"
                          /\ messages[i+1].tool_call_id = messages[i].call.id]_vars

\* C39 witness: the tool-calling loop has sent its third decision request,
\* the results of two calls standing behind them in the six turns sent.
C39_Witness ==
    /\ variant = "tool" /\ iteration = 2 /\ pc = "execute"
    /\ request.n = 6
    /\ messages[2].role = "user"
    /\ IsAssistantCall(messages[3]) /\ messages[4].role = "tool"
    /\ IsAssistantCall(messages[5]) /\ messages[6].role = "tool"
    /\ messages[6].tool_call_id = messages[5].call.id

====
